---------------------------- MODULE Spec2Model ----------------------------
(***************************************************************************)
(* A model of SearchBasedPlanner                                           *)
(* (src/planning_python/planners/search_based_planner.py): problem         *)
(* binding, successor / predecessor expansion, the explored-history grid,  *)
(* image-patch extraction and path reconstruction.                         *)
(*                                                                         *)
(* Python values are represented as follows.                               *)
(*   None, and an attribute that was never assigned : <<>>                 *)
(*   an assigned attribute holding v                : <<v>>                *)
(*   a node (x, y)                                  : <<x, y>>             *)
(*   an edge (list of continuous states)            : a sequence of states *)
(*   a raised exception                             : its name in .err     *)
(***************************************************************************)
EXTENDS Integers, Sequences, FiniteSets

VARIABLES
  initialized,       \* self.initialized
  curr_problem,      \* self.curr_problem (attribute)
  env,               \* self.env          (attribute)
  lattice,           \* self.lattice      (attribute)
  cost,              \* self.cost         (attribute)
  heuristic,         \* self.heuristic    (attribute)
  visualize,         \* self.visualize    (attribute)
  start_node,        \* self.start_node   (attribute)
  goal_node,         \* self.goal_node    (attribute)
  heuristic_weight,  \* self.heuristic_weight (attribute)
  use_image_patch,   \* self._use_image_patch (attribute)
  patch_size,        \* self._patch_size  (attribute)
  x_start,           \* self._x_start     (attribute)
  y_start,           \* self._y_start     (attribute)
  explore_history,   \* self._explore_history (attribute): [shape, cells]
  ret,               \* outcome of the last completed call
  plot_log,          \* rendering calls made by the last call, in order
  rp                 \* frame of a running reconstruct_path call

vars == <<initialized, curr_problem, env, lattice, cost, heuristic, visualize,
          start_node, goal_node, heuristic_weight, use_image_patch, patch_size,
          x_start, y_start, explore_history, ret, plot_log, rp>>

bindingVars == <<curr_problem, env, lattice, cost, heuristic, visualize,
                 start_node, goal_node, heuristic_weight>>

patchVars == <<use_image_patch, patch_size, x_start, y_start, explore_history>>

----------------------------------------------------------------------------
(* Python values *)

None == <<>>

Unset == <<>>

Attr(v) == <<v>>

IsSet(a) == a # <<>>

Val(a) == a[1]

\* Python truth value of a tuple / list / None
Truthy(v) == v # <<>>

Max(a, b) == IF a >= b THEN a ELSE b

Min(a, b) == IF a <= b THEN a ELSE b

MinOf(S) == CHOOSE m \in S : \A k \in S : m <= k

EXPLORED_TILE == 1

OBSTACLE_TILE == 2

----------------------------------------------------------------------------
(* Collaborators: lattice, environment, cost model, heuristic.             *)
(* They are inputs of the planner; the instances below are the ones the    *)
(* planner is exercised with.                                              *)

\* lattice.node_to_state(node): discrete node -> continuous state (resolution 2)
NodeToState(n) == <<2 * n[1], 2 * n[2]>>

\* motion primitives: node displacement d, and the offset of the edge's
\* intermediate state from the state of the source node
Prims == << [d |-> <<1, 0>>,  via |-> <<1, 0>>],
            [d |-> <<0, 1>>,  via |-> <<0, 1>>],
            [d |-> <<-1, 0>>, via |-> <<-1, 0>>],
            [d |-> <<0, 1>>,  via |-> <<1, 1>>] >>

PrimEdge(n, p) ==
  LET s == NodeToState(n)
      t == NodeToState(<<n[1] + p.d[1], n[2] + p.d[2]>>)
  IN  << s, <<s[1] + p.via[1], s[2] + p.via[2]>>, t >>

Lattices == {"LA", "LAp", "LB"}

\* lattice.x_lims, lattice.y_lims: declared coordinate bounds (low, high)
XLims(lat) == IF lat = "LB" THEN <<0, 4>> ELSE <<1, 4>>

YLims(lat) == IF lat = "LB" THEN <<-1, 3>> ELSE <<-1, 2>>

\* lattice.edge_precalc_done, lattice.costs_precalc_done
EdgePrecalcDone(lat) == lat = "LAp"

CostsPrecalcDone(lat) == lat = "LAp"

\* lattice.get_successors(node): ordered list of (node, edge)
LatticeGetSuccessors(lat, n) ==
  [i \in 1..Len(Prims) |->
     << <<n[1] + Prims[i].d[1], n[2] + Prims[i].d[2]>>, PrimEdge(n, Prims[i]) >>]

\* lattice.get_predecessors(node): ordered list of (node, edge into node)
LatticeGetPredecessors(lat, n) ==
  [i \in 1..Len(Prims) |->
     LET m == <<n[1] - Prims[i].d[1], n[2] - Prims[i].d[2]>>
     IN  << m, PrimEdge(m, Prims[i]) >>]

\* lattice.node_to_succs[node], lattice.node_to_preds[node]: the tables a
\* lattice with edge precomputation holds
NodeToSuccs(lat, n) == LatticeGetSuccessors(lat, n)

NodeToPreds(lat, n) == LatticeGetPredecessors(lat, n)

\* cost the lattice used when it precomputed its cost tables
TableCost(edge) ==
  LET dx == edge[Len(edge)][1] - edge[1][1]
      dy == edge[Len(edge)][2] - edge[1][2]
      ax == IF dx < 0 THEN -dx ELSE dx
      ay == IF dy < 0 THEN -dy ELSE dy
  IN  10 + ax + 2 * ay + (IF edge[2][1] # edge[1][1] /\ edge[2][2] # edge[1][2] THEN 3 ELSE 0)

\* lattice.succ_costs[node], lattice.pred_costs[node]: ordered cost lists
SuccCosts(lat, n) ==
  [i \in 1..Len(Prims) |-> TableCost(LatticeGetSuccessors(lat, n)[i][2])]

PredCosts(lat, n) ==
  [i \in 1..Len(Prims) |-> TableCost(LatticeGetPredecessors(lat, n)[i][2])]

Abs(a) == IF a < 0 THEN -a ELSE a

RECURSIVE PathLength(_, _)
PathLength(edge, k) ==
  IF k >= Len(edge) THEN 0
  ELSE Abs(edge[k + 1][1] - edge[k][1]) + Abs(edge[k + 1][2] - edge[k][2])
       + PathLength(edge, k + 1)

\* cost.get_cost(edge): length of the edge
GetCost(c, edge) == PathLength(edge, 1)

Envs == {"E1", "E2"}

\* workspace limits of an environment, in continuous coordinates
EnvLimits(e) ==
  IF e = "E1" THEN [xlo |-> 2, xhi |-> 6, ylo |-> -2, yhi |-> 2]
  ELSE [xlo |-> -2, xhi |-> 10, ylo |-> -6, yhi |-> 6]

\* continuous states in collision
EnvObstacles(e) ==
  IF e = "E1" THEN {<<5, 1>>, <<3, 1>>, <<5, 0>>} ELSE {<<4, 1>>, <<1, 0>>}

InLimits(e, s) ==
  LET l == EnvLimits(e)
  IN  l.xlo <= s[1] /\ s[1] <= l.xhi /\ l.ylo <= s[2] /\ s[2] <= l.yhi

\* env.is_edge_valid(edge) -> (isvalid, first_coll_state); first_coll_state is
\* None when the edge is valid or leaves the workspace
IsEdgeValid(e, edge) ==
  LET bad == {k \in 1..Len(edge) : ~InLimits(e, edge[k]) \/ edge[k] \in EnvObstacles(e)}
  IN  IF bad = {} THEN <<TRUE, None>>
      ELSE IF ~InLimits(e, edge[MinOf(bad)]) THEN <<FALSE, None>>
      ELSE <<FALSE, edge[MinOf(bad)]>>

\* problem.heuristic: "None" stands for Python's None, every other value for
\* an object with get_heuristic and the optional attributes use_image_patch /
\* patch_size
Heuristics == {"None", "HPlain", "HPatch1", "HPatch2", "HPatch3", "HPatch4"}

PatchHeuristics == {"HPatch1", "HPatch2", "HPatch3", "HPatch4"}

HeurHasFlag(h) == h \in PatchHeuristics

HeurFlag(h) == h \in PatchHeuristics

HeurHasSize(h) == h \in PatchHeuristics

HeurSize(h) ==
  CASE h = "HPatch1" -> 1
    [] h = "HPatch2" -> 2
    [] h = "HPatch3" -> 3
    [] OTHER -> 4

\* heuristic.get_heuristic(s_1, s_2): Manhattan distance for the plain
\* heuristic, the larger coordinate difference for the patch heuristics
HeurDistance(h, s_1, s_2) ==
  LET dx == Abs(s_1[1] - s_2[1])
      dy == Abs(s_1[2] - s_2[2])
  IN  IF h = "HPlain" THEN dx + dy ELSE Max(dx, dy)

\* planning problems handed to initialize / reset_problem
MkProblem(i, e, l, h, v, s, g, w) ==
  [initialized |-> i, env |-> e, lattice |-> l, cost |-> "PathLength",
   heuristic |-> h, visualize |-> v, start_n |-> s, goal_n |-> g,
   params |-> [heuristic_weight |-> w]]

Problems ==
  { MkProblem(TRUE,  "E1", "LA",  "HPatch3", FALSE, <<2, 0>>, <<1, 1>>, 1),
    MkProblem(TRUE,  "E2", "LAp", "HPatch1", TRUE,  <<1, 0>>, <<2, 1>>, 2),
    MkProblem(TRUE,  "E1", "LAp", "None",    TRUE,  <<2, 0>>, <<2, 1>>, 1),
    MkProblem(TRUE,  "E2", "LA",  "HPlain", FALSE, <<1, 1>>, <<3, 0>>, 3),
    MkProblem(FALSE, "E1", "LA",  "HPatch3", FALSE, <<2, 0>>, <<1, 1>>, 1) }

----------------------------------------------------------------------------
(* Explored-history grid *)

\* np.zeros((xsize, ysize), dtype=int)
Zeros(xsize, ysize) ==
  [shape |-> <<xsize, ysize>>,
   cells |-> [c \in (0..(xsize - 1)) \X (0..(ysize - 1)) |-> 0]]

\* numpy integer indexing along an axis of length n: a negative index counts
\* from the end, an index outside [-n, n) raises IndexError
IndexOk(i, n) == -n <= i /\ i < n

NormIndex(i, n) == IF i < 0 THEN i + n ELSE i

\* index pair _set_explored computes for a node
CellIndex(xs, ys, node) == <<-xs + node[1], -ys + node[2]>>

\* _set_explored indexing the grid with the node's own coordinates
SetExploredNoOffset(uip, xs, ys, hist, node, val) ==
  IF ~IsSet(uip) THEN [err |-> "AttributeError", hist |-> hist]
  ELSE IF ~Val(uip) THEN [err |-> "", hist |-> hist]
  ELSE IF ~IsSet(hist) \/ ~IsSet(xs) \/ ~IsSet(ys)
       THEN [err |-> "AttributeError", hist |-> hist]
  ELSE LET h == Val(hist)
       IN  IF ~IndexOk(node[1], h.shape[1]) \/ ~IndexOk(node[2], h.shape[2])
           THEN [err |-> "IndexError", hist |-> hist]
           ELSE LET c == <<NormIndex(node[1], h.shape[1]), NormIndex(node[2], h.shape[2])>>
                IN  [err |-> "",
                     hist |-> Attr([h EXCEPT !.cells[c] = val])]

\* _set_explored(node, val), given the attribute values it reads; the result
\* is the grid after the call and the exception raised, if any
SetExplored(uip, xs, ys, hist, node, val) ==
  IF ~IsSet(uip) THEN [err |-> "AttributeError", hist |-> hist]
  ELSE IF ~Val(uip) THEN [err |-> "", hist |-> hist]
  ELSE IF ~IsSet(hist) \/ ~IsSet(xs) \/ ~IsSet(ys)
       THEN [err |-> "AttributeError", hist |-> hist]
  ELSE LET h == Val(hist)
           ix == CellIndex(Val(xs), Val(ys), node)
       IN  IF ~IndexOk(ix[1], h.shape[1]) \/ ~IndexOk(ix[2], h.shape[2])
           THEN [err |-> "IndexError", hist |-> hist]
           ELSE LET c == <<NormIndex(ix[1], h.shape[1]), NormIndex(ix[2], h.shape[2])>>
                IN  [err |-> "",
                     hist |-> Attr([h EXCEPT !.cells[c] = val])]

----------------------------------------------------------------------------
(* Problem binding *)

\* rp holds the arguments the caller passes to reconstruct_path (came_from,
\* start_node, goal_node, cost_so_far), the call's position (pc: "idle" when
\* no call is running, "walk" inside the while loop) and its locals
IdleFrame ==
  [pc |-> "idle", came_from |-> <<>>, start_node |-> None, goal_node |-> None,
   cost_so_far |-> <<>>, curr |-> None, path |-> <<>>, path_cost |-> None]

Init ==
  /\ initialized = FALSE
  /\ curr_problem = Unset /\ env = Unset /\ lattice = Unset /\ cost = Unset
  /\ heuristic = Unset /\ visualize = Unset /\ start_node = Unset
  /\ goal_node = Unset /\ heuristic_weight = Unset
  /\ use_image_patch = Unset /\ patch_size = Unset
  /\ x_start = Unset /\ y_start = Unset /\ explore_history = Unset
  /\ ret = [op |-> "__init__", arg |-> None, err |-> "", val |-> None]
  /\ plot_log = <<>>
  /\ rp = IdleFrame

\* the nine attribute assignments shared by initialize and reset_problem
Bind(problem) ==
  /\ curr_problem' = Attr(problem)
  /\ env' = Attr(problem.env)
  /\ lattice' = Attr(problem.lattice)
  /\ cost' = Attr(problem.cost)
  /\ heuristic' = Attr(problem.heuristic)
  /\ visualize' = Attr(problem.visualize)
  /\ start_node' = Attr(problem.start_n)
  /\ goal_node' = Attr(problem.goal_n)
  /\ heuristic_weight' = Attr(problem.params.heuristic_weight)

\* the try / except AttributeError block of initialize: the values of
\* _use_image_patch and _patch_size after it
ProbePatch(h, old_size) ==
  IF h = "None" \/ ~HeurHasFlag(h) THEN [use |-> FALSE, size |-> Attr(0)]
  ELSE IF ~HeurFlag(h) THEN [use |-> FALSE, size |-> old_size]
  ELSE IF ~HeurHasSize(h) THEN [use |-> FALSE, size |-> Attr(0)]
  ELSE [use |-> TRUE, size |-> Attr(HeurSize(h))]

\* env.initialize_plot(start_state, goal_state), made when visualize is set
InitPlotCalls(problem) ==
  IF problem.visualize
  THEN << <<"initialize_plot", NodeToState(problem.start_n), NodeToState(problem.goal_n)>> >>
  ELSE <<>>

\* a binding without the precondition check
ProblemReadyAlways(problem) == TRUE

\* `assert problem.initialized == True` of initialize and reset_problem:
\* whether the assertion passes
ProblemReady(problem) == problem.initialized = TRUE

Initialize(problem) ==
  /\ rp.pc = "idle"
  /\ UNCHANGED rp
  /\ IF ~ProblemReady(problem)
     THEN /\ ret' = [op |-> "initialize", arg |-> problem, err |-> "AssertionError", val |-> None]
          /\ plot_log' = <<>>
          /\ UNCHANGED <<initialized, bindingVars, patchVars>>
     ELSE LET pp == ProbePatch(problem.heuristic, patch_size)
              lat == problem.lattice
              grid == Zeros(XLims(lat)[2] - XLims(lat)[1], YLims(lat)[2] - YLims(lat)[1])
              marked == SetExplored(Attr(TRUE), Attr(XLims(lat)[1]), Attr(YLims(lat)[1]),
                                    Attr(grid), problem.start_n, EXPLORED_TILE)
          IN  /\ Bind(problem)
              /\ use_image_patch' = Attr(pp.use)
              /\ patch_size' = pp.size
              /\ IF pp.use
                 THEN /\ x_start' = Attr(XLims(lat)[1])
                      /\ y_start' = Attr(YLims(lat)[1])
                      /\ explore_history' = marked.hist
                 ELSE UNCHANGED <<x_start, y_start, explore_history>>
              /\ IF pp.use /\ marked.err # ""
                 THEN /\ ret' = [op |-> "initialize", arg |-> problem, err |-> marked.err, val |-> None]
                      /\ plot_log' = <<>>
                      /\ UNCHANGED initialized
                 ELSE /\ ret' = [op |-> "initialize", arg |-> problem, err |-> "", val |-> None]
                      /\ plot_log' = InitPlotCalls(problem)
                      /\ initialized' = TRUE

\* a reset that wipes the grid
ResetClearsHistory(problem) ==
  /\ explore_history' = IF IsSet(explore_history)
                        THEN Attr(Zeros(Val(explore_history).shape[1],
                                        Val(explore_history).shape[2]))
                        ELSE explore_history
  /\ UNCHANGED <<use_image_patch, patch_size, x_start, y_start>>

\* a reset that re-allocates the grid from the new problem's lattice
ResetResizesGrid(problem) ==
  /\ explore_history' = IF IsSet(explore_history)
                        THEN Attr(Zeros(XLims(problem.lattice)[2] - XLims(problem.lattice)[1],
                                        YLims(problem.lattice)[2] - YLims(problem.lattice)[1]))
                        ELSE explore_history
  /\ UNCHANGED <<use_image_patch, patch_size, x_start, y_start>>

\* what reset_problem does to the patch attributes and the grid: it assigns
\* none of them
ResetPatchState(problem) == UNCHANGED patchVars

ResetProblem(problem) ==
  /\ rp.pc = "idle"
  /\ UNCHANGED rp
  /\ IF ~ProblemReady(problem)
     THEN /\ ret' = [op |-> "reset_problem", arg |-> problem, err |-> "AssertionError", val |-> None]
          /\ plot_log' = <<>>
          /\ UNCHANGED <<initialized, bindingVars, patchVars>>
     ELSE /\ Bind(problem)
          /\ ResetPatchState(problem)
          /\ ret' = [op |-> "reset_problem", arg |-> problem, err |-> "", val |-> None]
          /\ plot_log' = InitPlotCalls(problem)
          /\ initialized' = TRUE

----------------------------------------------------------------------------
(* Expansion engine *)

EmptyExpansion(hist) ==
  [neighbors |-> <<>>, costs |-> <<>>, valid_edges |-> <<>>,
   invalid_edges |-> <<>>, hist |-> hist, err |-> ""]

\* every invalid edge recorded, whatever first_coll_state is
RecordsInvalidAlways(first_coll_state) == TRUE

\* `if first_coll_state:` -- whether an invalid edge is recorded (and, in
\* get_successors, its destination marked)
RecordsInvalid(first_coll_state) == Truthy(first_coll_state)

\* the cost table indexed by the position in the list of valid candidates
CostIndexFiltered(i, k) == k

\* position used in lattice.succ_costs[node][i] / pred_costs[node][i]:
\* i is the candidate's position in the raw transition list, k the number of
\* valid candidates appended so far plus one
CostIndex(i, k) == i

\* cost appended for the i-th successor candidate
SuccCost(c, i) ==
  IF CostsPrecalcDone(c.lat)
  THEN SuccCosts(c.lat, c.node)[CostIndex(i, Len(c.acc.costs) + 1)]
  ELSE GetCost(c.cost, c.succs[i][2])

\* a valid candidate appended without its cost
AppendValidNoCost(acc, n, e, cst) ==
  [acc EXCEPT !.neighbors = Append(@, n),
              !.valid_edges = Append(@, e)]

\* the three appends made for a valid candidate
AppendValid(acc, n, e, cst) ==
  [acc EXCEPT !.neighbors = Append(@, n),
              !.valid_edges = Append(@, e),
              !.costs = Append(@, cst)]

\* a loop body that marks the destination explored whenever the candidate
\* is not recorded as invalid, valid or not
SuccStepMarksUnrecorded(c, i) ==
  LET succ_node == c.succs[i][1]
      succ_edge == c.succs[i][2]
      chk == IsEdgeValid(c.env, succ_edge)
      isvalid == chk[1]
      first_coll_state == chk[2]
      acc == c.acc
  IN  IF ~isvalid /\ RecordsInvalid(first_coll_state)
      THEN LET m == SetExplored(c.uip, c.xs, c.ys, acc.hist, succ_node, OBSTACLE_TILE)
           IN  [acc EXCEPT !.invalid_edges = Append(@, <<succ_edge, first_coll_state>>),
                           !.hist = m.hist, !.err = m.err]
      ELSE LET m == SetExplored(c.uip, c.xs, c.ys, acc.hist, succ_node, EXPLORED_TILE)
           IN  IF m.err # "" THEN [acc EXCEPT !.hist = m.hist, !.err = m.err]
               ELSE IF ~isvalid THEN [acc EXCEPT !.hist = m.hist]
               ELSE [AppendValid(acc, succ_node, succ_edge, SuccCost(c, i))
                       EXCEPT !.hist = m.hist]

\* a loop body that passes over a candidate whose destination the grid
\* already shows as obstacle
SuccStepSkipsObstacle(c, i) ==
  LET succ_node == c.succs[i][1]
      succ_edge == c.succs[i][2]
      chk == IsEdgeValid(c.env, succ_edge)
      isvalid == chk[1]
      first_coll_state == chk[2]
      acc == c.acc
      known == /\ IsSet(c.uip) /\ Val(c.uip) /\ IsSet(acc.hist)
               /\ CellIndex(Val(c.xs), Val(c.ys), succ_node) \in DOMAIN Val(acc.hist).cells
               /\ Val(acc.hist).cells[CellIndex(Val(c.xs), Val(c.ys), succ_node)] = OBSTACLE_TILE
  IN  IF known THEN acc
      ELSE IF ~isvalid
      THEN IF RecordsInvalid(first_coll_state)
           THEN LET m == SetExplored(c.uip, c.xs, c.ys, acc.hist, succ_node, OBSTACLE_TILE)
                IN  [acc EXCEPT !.invalid_edges = Append(@, <<succ_edge, first_coll_state>>),
                                !.hist = m.hist, !.err = m.err]
           ELSE acc
      ELSE LET m == SetExplored(c.uip, c.xs, c.ys, acc.hist, succ_node, EXPLORED_TILE)
           IN  IF m.err # ""
               THEN [acc EXCEPT !.hist = m.hist, !.err = m.err]
               ELSE [AppendValid(acc, succ_node, succ_edge, SuccCost(c, i))
                       EXCEPT !.hist = m.hist]

\* one iteration of the loop of get_successors over candidate i; c holds the
\* values the loop reads (node, succs, env, lat, cost, the patch attributes)
\* and the lists built so far (acc)
SuccStep(c, i) ==
  LET succ_node == c.succs[i][1]
      succ_edge == c.succs[i][2]
      chk == IsEdgeValid(c.env, succ_edge)
      isvalid == chk[1]
      first_coll_state == chk[2]
      acc == c.acc
  IN  IF ~isvalid
      THEN IF RecordsInvalid(first_coll_state)
           THEN LET m == SetExplored(c.uip, c.xs, c.ys, acc.hist, succ_node, OBSTACLE_TILE)
                IN  [acc EXCEPT !.invalid_edges = Append(@, <<succ_edge, first_coll_state>>),
                                !.hist = m.hist, !.err = m.err]
           ELSE acc
      ELSE LET m == SetExplored(c.uip, c.xs, c.ys, acc.hist, succ_node, EXPLORED_TILE)
           IN  IF m.err # ""
               THEN [acc EXCEPT !.hist = m.hist, !.err = m.err]
               ELSE [AppendValid(acc, succ_node, succ_edge, SuccCost(c, i))
                       EXCEPT !.hist = m.hist]

RECURSIVE SuccLoop(_, _)
SuccLoop(c, i) ==
  IF i > Len(c.succs) \/ c.acc.err # "" THEN c.acc
  ELSE SuccLoop([c EXCEPT !.acc = SuccStep(c, i)], i + 1)

PredCost(c, i) ==
  IF CostsPrecalcDone(c.lat)
  THEN PredCosts(c.lat, c.node)[CostIndex(i, Len(c.acc.costs) + 1)]
  ELSE GetCost(c.cost, c.succs[i][2])

\* a predecessor loop body that marks the grid the way get_successors does
PredStepMarks(c, i) ==
  LET pred_node == c.succs[i][1]
      pred_edge == c.succs[i][2]
      chk == IsEdgeValid(c.env, pred_edge)
      isvalid == chk[1]
      first_coll_state == chk[2]
      acc == c.acc
      Marked(val) ==
        LET m == SetExplored(c.uip, c.xs, c.ys, acc.hist, pred_node, val)
        IN  IF m.err = "" THEN m.hist ELSE acc.hist
  IN  IF ~isvalid
      THEN IF RecordsInvalid(first_coll_state)
           THEN [acc EXCEPT !.invalid_edges = Append(@, <<pred_edge, first_coll_state>>),
                            !.hist = Marked(OBSTACLE_TILE)]
           ELSE acc
      ELSE [AppendValid(acc, pred_node, pred_edge, PredCost(c, i))
              EXCEPT !.hist = Marked(EXPLORED_TILE)]

\* one iteration of the loop of get_predecessors (c.succs holds preds); the
\* grid (acc.hist) is not touched
PredStep(c, i) ==
  LET pred_node == c.succs[i][1]
      pred_edge == c.succs[i][2]
      chk == IsEdgeValid(c.env, pred_edge)
      isvalid == chk[1]
      first_coll_state == chk[2]
      acc == c.acc
  IN  IF ~isvalid
      THEN IF RecordsInvalid(first_coll_state)
           THEN [acc EXCEPT !.invalid_edges = Append(@, <<pred_edge, first_coll_state>>)]
           ELSE acc
      ELSE AppendValid(acc, pred_node, pred_edge, PredCost(c, i))

RECURSIVE PredLoop(_, _)
PredLoop(c, i) ==
  IF i > Len(c.succs) THEN c.acc
  ELSE PredLoop([c EXCEPT !.acc = PredStep(c, i)], i + 1)

\* visualize_search(valid_edges, invalid_edges): the rendering calls
VisualizeSearch(valid_edges, invalid_edges) ==
  << <<"plot_edges", valid_edges>> >>
  \o [k \in 1..Len(invalid_edges) |-> <<"plot_edge", invalid_edges[k][1]>>]

\* the raw transition list get_successors / get_predecessors iterate over
RawSuccs(lat, node) ==
  IF EdgePrecalcDone(lat) THEN NodeToSuccs(lat, node)
  ELSE LatticeGetSuccessors(lat, node)

RawPreds(lat, node) ==
  IF EdgePrecalcDone(lat) THEN NodeToPreds(lat, node)
  ELSE LatticeGetPredecessors(lat, node)

ExpansionValue(acc) ==
  [neighbors |-> acc.neighbors, costs |-> acc.costs,
   valid_edges |-> acc.valid_edges, invalid_edges |-> acc.invalid_edges]

\* nodes handed to get_successors / get_predecessors
ExpandNodes == {<<2, 0>>, <<1, 0>>, <<1, 1>>, <<3, 0>>}

GetSuccessors(node) ==
  /\ rp.pc = "idle"
  /\ UNCHANGED <<rp, initialized, bindingVars, use_image_patch, patch_size, x_start, y_start>>
  /\ IF ~IsSet(lattice)
     THEN /\ ret' = [op |-> "get_successors", arg |-> node, err |-> "AttributeError", val |-> None]
          /\ plot_log' = <<>>
          /\ UNCHANGED explore_history
     ELSE LET c == [node |-> node, succs |-> RawSuccs(Val(lattice), node),
                    env |-> Val(env), lat |-> Val(lattice), cost |-> Val(cost),
                    uip |-> use_image_patch, xs |-> x_start, ys |-> y_start,
                    acc |-> EmptyExpansion(explore_history)]
              res == SuccLoop(c, 1)
          IN  /\ explore_history' = res.hist
              /\ IF res.err # ""
                 THEN /\ ret' = [op |-> "get_successors", arg |-> node, err |-> res.err, val |-> None]
                      /\ plot_log' = <<>>
                 ELSE /\ ret' = [op |-> "get_successors", arg |-> node, err |-> "",
                                 val |-> ExpansionValue(res)]
                      /\ plot_log' = IF Val(visualize)
                                     THEN VisualizeSearch(res.valid_edges, res.invalid_edges)
                                     ELSE <<>>

GetPredecessors(node) ==
  /\ rp.pc = "idle"
  /\ UNCHANGED <<rp, initialized, bindingVars, use_image_patch, patch_size, x_start, y_start>>
  /\ IF ~IsSet(lattice)
     THEN /\ ret' = [op |-> "get_predecessors", arg |-> node, err |-> "AttributeError", val |-> None]
          /\ plot_log' = <<>>
          /\ UNCHANGED explore_history
     ELSE LET c == [node |-> node, succs |-> RawPreds(Val(lattice), node),
                    env |-> Val(env), lat |-> Val(lattice), cost |-> Val(cost),
                    uip |-> use_image_patch, xs |-> x_start, ys |-> y_start,
                    acc |-> EmptyExpansion(explore_history)]
              res == PredLoop(c, 1)
          IN  /\ explore_history' = res.hist
              /\ ret' = [op |-> "get_predecessors", arg |-> node, err |-> "",
                         val |-> ExpansionValue(res)]
              /\ plot_log' = IF Val(visualize)
                             THEN VisualizeSearch(res.valid_edges, res.invalid_edges)
                             ELSE <<>>

----------------------------------------------------------------------------
(* Image patch *)

\* a Python slice bound b clipped to an axis of length n: a negative bound
\* counts from the end
SliceBound(b, n) == IF b < 0 THEN Max(b + n, 0) ELSE Min(b, n)

\* the indices selected by a[lo:hi] on an axis of length n, as (first, count)
Slice(lo, hi, n) ==
  [first |-> SliceBound(lo, n),
   count |-> Max(SliceBound(hi, n) - SliceBound(lo, n), 0)]

\* whether numpy can assign a source axis of length src to a target axis of
\* length dst (equal lengths, or a source of length 1 broadcast)
Broadcasts(src, dst) == src = dst \/ src = 1

\* the window bounds _get_patch computes along one axis: xdx is the node's
\* offset coordinate, n the grid's length along the axis
PatchAxis(xdx, size, n) ==
  LET start0 == xdx - ((size - 1) \div 2)
      start_off == Max(-start0, 0)
      start == Max(start0, 0)
      end == xdx + ((size - 1) \div 2) + 1
      end_off == size - Max(end - n, 0)
  IN  [dst |-> Slice(start_off, end_off, size), src |-> Slice(start, end, n)]

\* _get_patch(center_node, size): the size x size array, or ValueError when
\* the two slices of the assignment do not match
GetPatch(hist, xs, ys, center_node, size) ==
  LET ax == PatchAxis(center_node[1] - xs, size, hist.shape[1])
      ay == PatchAxis(center_node[2] - ys, size, hist.shape[2])
      SrcIdx(a, i) == IF a.src.count = 1 THEN a.src.first
                      ELSE a.src.first + (i - a.dst.first)
      In(a, i) == a.dst.first <= i /\ i < a.dst.first + a.dst.count
  IN  IF ~Broadcasts(ax.src.count, ax.dst.count) \/ ~Broadcasts(ay.src.count, ay.dst.count)
      THEN [err |-> "ValueError", out |-> None]
      ELSE [err |-> "",
            out |-> [shape |-> <<size, size>>,
                     cells |-> [c \in (0..(size - 1)) \X (0..(size - 1)) |->
                                  IF In(ax, c[1]) /\ In(ay, c[2])
                                  THEN hist.cells[<<SrcIdx(ax, c[1]), SrcIdx(ay, c[2])>>]
                                  ELSE 0]]]

\* the three channels built from a patch: feature[ch] = (patch == ch)
PatchFeature(patch) ==
  [shape |-> <<3>> \o patch.shape,
   cells |-> [c \in (0..2) \X (0..(patch.shape[1] - 1)) \X (0..(patch.shape[2] - 1)) |->
                IF patch.cells[<<c[2], c[3]>>] = c[1] THEN 1 ELSE 0]]

\* how far beyond the lattice bounds the center nodes handed to
\* get_image_patch_as_feature range
PatchMargin == 2

PatchNodes ==
  ((1 - PatchMargin)..(3 + PatchMargin)) \X ((-1 - PatchMargin)..(1 + PatchMargin))

GetImagePatchAsFeature(center_node) ==
  /\ rp.pc = "idle"
  /\ UNCHANGED <<rp, initialized, bindingVars, patchVars>>
  /\ plot_log' = <<>>
  /\ IF ~IsSet(patch_size) \/ ~IsSet(x_start) \/ ~IsSet(y_start) \/ ~IsSet(explore_history)
     THEN ret' = [op |-> "get_image_patch_as_feature", arg |-> center_node,
                  err |-> "AttributeError", val |-> None]
     ELSE LET patch == GetPatch(Val(explore_history), Val(x_start), Val(y_start),
                                center_node, Val(patch_size))
          IN  IF patch.err # ""
              THEN ret' = [op |-> "get_image_patch_as_feature", arg |-> center_node,
                           err |-> patch.err, val |-> None]
              ELSE ret' = [op |-> "get_image_patch_as_feature", arg |-> center_node,
                           err |-> "", val |-> PatchFeature(patch.out)]

----------------------------------------------------------------------------
(* Heuristic query, plan, clear_planner *)

\* a heuristic value multiplied by the configured weight
HeuristicValueWeighted(h, w, s_1, s_2) == w * HeurDistance(h, s_1, s_2)

\* h_val of get_heuristic for a configured heuristic h; w is
\* self.heuristic_weight, which the method does not read
HeuristicValue(h, w, s_1, s_2) == HeurDistance(h, s_1, s_2)

\* node pairs handed to get_heuristic
HeurPairs == { <<<<1, 0>>, <<2, 1>>>>, <<<<2, 0>>, <<2, 0>>>> }

GetHeuristic(node_1, node_2) ==
  /\ rp.pc = "idle"
  /\ UNCHANGED <<rp, initialized, bindingVars, patchVars>>
  /\ plot_log' = <<>>
  /\ IF ~IsSet(heuristic)
     THEN ret' = [op |-> "get_heuristic", arg |-> <<node_1, node_2>>,
                  err |-> "AttributeError", val |-> None]
     ELSE IF Val(heuristic) = "None"
     THEN ret' = [op |-> "get_heuristic", arg |-> <<node_1, node_2>>, err |-> "", val |-> 0]
     ELSE LET s_1 == NodeToState(node_1)
              s_2 == NodeToState(node_2)
              h_val == HeuristicValue(Val(heuristic), Val(heuristic_weight), s_1, s_2)
          IN  ret' = [op |-> "get_heuristic", arg |-> <<node_1, node_2>>,
                      err |-> "", val |-> h_val]

\* plan(): abstract
Plan ==
  /\ rp.pc = "idle"
  /\ UNCHANGED <<rp, initialized, bindingVars, patchVars>>
  /\ plot_log' = <<>>
  /\ ret' = [op |-> "plan", arg |-> None, err |-> "NotImplementedError", val |-> None]

\* a clear_planner that takes the planner back to uninitialized
ClearPlannerResetsFlag ==
  /\ rp.pc = "idle"
  /\ UNCHANGED <<rp, bindingVars, patchVars>>
  /\ initialized' = FALSE
  /\ plot_log' = <<>>
  /\ ret' = [op |-> "clear_planner", arg |-> None, err |-> "", val |-> None]

\* clear_planner(): abstract
ClearPlanner ==
  /\ rp.pc = "idle"
  /\ UNCHANGED <<rp, initialized, bindingVars, patchVars>>
  /\ plot_log' = <<>>
  /\ ret' = [op |-> "clear_planner", arg |-> None, err |-> "NotImplementedError", val |-> None]

----------------------------------------------------------------------------
(* Path reconstruction *)

\* nodes the predecessor maps handed to reconstruct_path range over
RNodes == {<<1, 0>>, <<2, 0>>, <<2, 1>>}

\* the edge a search stores for reaching node n from node p
StoredEdge(p, n) == <<NodeToState(p), NodeToState(n)>>

\* predecessor maps (dicts node -> (prev, edge)); an entry (None, None) marks
\* a node without predecessor; a node is not its own predecessor (every
\* transition of the lattice leads to another node)
CameFroms ==
  UNION { { [n \in D |-> IF pm[n] = None THEN <<None, None>>
                         ELSE <<pm[n], StoredEdge(pm[n], n)>>] :
            pm \in {f \in [D -> RNodes \cup {None}] : \A n \in D : f[n] # n} } :
          D \in SUBSET RNodes }

\* accumulated-cost maps (dicts node -> cost)
CostSoFars ==
  { [n \in D |-> 3 * n[1] + n[2]] : D \in {RNodes, RNodes \ {<<2, 1>>}} }

\* longest edge list a walk is followed to: an iteration that would append
\* to a list of this length is not taken (only a walk that revisits a node
\* gets there; a walk over the nodes of RNodes that ends collects fewer)
MaxPathLen == 3

RECURSIVE Reverse(_)
Reverse(q) == IF q = <<>> THEN <<>> ELSE Append(Reverse(Tail(q)), Head(q))

InitRecon ==
  /\ initialized = FALSE
  /\ curr_problem = Unset /\ env = Unset /\ lattice = Unset /\ cost = Unset
  /\ heuristic = Unset /\ visualize = Unset /\ start_node = Unset
  /\ goal_node = Unset /\ heuristic_weight = Unset
  /\ use_image_patch = Unset /\ patch_size = Unset
  /\ x_start = Unset /\ y_start = Unset /\ explore_history = Unset
  /\ ret = [op |-> "__init__", arg |-> None, err |-> "", val |-> None]
  /\ plot_log = <<>>
  /\ \E cf \in CameFroms, s \in {<<1, 0>>, <<2, 0>>}, g \in RNodes, cs \in CostSoFars :
       rp = [IdleFrame EXCEPT !.came_from = cf, !.start_node = s,
                              !.goal_node = g, !.cost_so_far = cs]

ReconArgs == [came_from |-> rp.came_from, start_node |-> rp.start_node,
              goal_node |-> rp.goal_node, cost_so_far |-> rp.cost_so_far]

\* entry of reconstruct_path up to the while loop (lines 180-182)
ReconstructPath ==
  /\ rp.pc = "idle"
  /\ UNCHANGED <<initialized, bindingVars, patchVars>>
  /\ plot_log' = <<>>
  /\ IF rp.goal_node \notin DOMAIN rp.cost_so_far
     THEN /\ ret' = [op |-> "reconstruct_path", arg |-> ReconArgs, err |-> "KeyError", val |-> None]
          /\ UNCHANGED rp
     ELSE /\ rp' = [rp EXCEPT !.pc = "walk", !.curr = rp.goal_node, !.path = <<>>,
                              !.path_cost = rp.cost_so_far[rp.goal_node]]
          /\ UNCHANGED ret

\* the list after path.append(edge)
PathAppend(path, edge) == Append(path, edge)

\* a walk that does not advance (curr = prev dropped)
WalkNextStuck(curr, prev) == curr

\* node the walk moves to after reading (prev, edge) = came_from[curr]
WalkNext(curr, prev) == prev

\* a return without path.reverse()
FinalPathUnreversed(path) == path

\* the list returned once the loop is left
FinalPath(path) == Reverse(path)

\* a lookup that treats a missing key as a node without predecessor
\* (came_from.get(curr, (None, None))) and so returns what was collected
MissingKeyAsRoot(a, path, path_cost) ==
  [err |-> "", val |-> <<Reverse(path), path_cost>>]

\* what the call does once curr is not a key of came_from
MissingKey(a, path, path_cost) == [err |-> "KeyError", val |-> None]

\* one iteration of the while loop; leaving the loop includes the rest of the
\* function (reverse, optional plot, return). The loop itself has no limit:
\* the guard on the appending branch stops following a walk whose list has
\* reached MaxPathLen edges, the list up to there is the code's
ReconStep ==
  /\ rp.pc = "walk"
  /\ UNCHANGED <<initialized, bindingVars, patchVars>>
  /\ IF rp.curr \notin DOMAIN rp.came_from
     THEN LET r == MissingKey(ReconArgs, rp.path, rp.path_cost)
          IN  /\ ret' = [op |-> "reconstruct_path", arg |-> ReconArgs, err |-> r.err, val |-> r.val]
              /\ plot_log' = <<>>
              /\ rp' = [rp EXCEPT !.pc = "idle", !.curr = None, !.path = <<>>, !.path_cost = None]
     ELSE LET prev == rp.came_from[rp.curr][1]
              edge == rp.came_from[rp.curr][2]
          IN  IF prev = None
              THEN /\ rp' = [rp EXCEPT !.pc = "idle", !.curr = None, !.path = <<>>, !.path_cost = None]
                   /\ IF ~IsSet(visualize)
                      THEN /\ ret' = [op |-> "reconstruct_path", arg |-> ReconArgs,
                                      err |-> "AttributeError", val |-> None]
                           /\ plot_log' = <<>>
                      ELSE /\ ret' = [op |-> "reconstruct_path", arg |-> ReconArgs, err |-> "",
                                      val |-> <<FinalPath(rp.path), rp.path_cost>>]
                           /\ plot_log' = IF Val(visualize)
                                          THEN << <<"plot_path", FinalPath(rp.path)>> >>
                                          ELSE <<>>
              ELSE /\ Len(rp.path) < MaxPathLen
                   /\ rp' = [rp EXCEPT !.path = PathAppend(rp.path, edge),
                                       !.curr = WalkNext(rp.curr, prev)]
                   /\ UNCHANGED <<ret, plot_log>>

NextRecon ==
  \/ \E p \in Problems : Initialize(p)
  \/ ReconstructPath
  \/ ReconStep

\* reconstruct_path runs synchronously: a started walk keeps taking steps
SpecRecon == InitRecon /\ [][NextRecon]_vars /\ WF_vars(ReconStep)

Next ==
  \/ \E p \in Problems : Initialize(p)
  \/ \E p \in Problems : ResetProblem(p)
  \/ \E n \in ExpandNodes : GetSuccessors(n)
  \/ \E n \in ExpandNodes : GetPredecessors(n)
  \/ \E n \in ExpandNodes : GetImagePatchAsFeature(n)
  \/ \E q \in HeurPairs : GetHeuristic(q[1], q[2])
  \/ Plan
  \/ ClearPlanner

Spec == Init /\ [][Next]_vars

\* a planner bound once and then only queried: expansions and patch
\* extraction against one environment and one lattice
NextFixed ==
  \/ \E p \in Problems : ~initialized /\ Initialize(p)
  \/ \E n \in ExpandNodes : GetSuccessors(n)
  \/ \E n \in ExpandNodes : GetPredecessors(n)
  \/ \E n \in PatchNodes : GetImagePatchAsFeature(n)

SpecFixed == Init /\ [][NextFixed]_vars

\* planning problems whose lattices declare different coordinate bounds and
\* whose heuristics declare even and odd patch sizes
ProblemsWide ==
  { MkProblem(TRUE, "E2", "LA", "HPatch2", FALSE, <<1, 0>>, <<2, 1>>, 1),
    MkProblem(TRUE, "E2", "LB", "HPatch4", FALSE, <<1, 0>>, <<2, 1>>, 1),
    MkProblem(TRUE, "E1", "LB", "HPlain",  TRUE,  <<2, 0>>, <<1, 1>>, 2),
    MkProblem(TRUE, "E1", "LA", "HPatch3", FALSE, <<2, 0>>, <<1, 1>>, 1) }

\* center nodes handed to get_image_patch_as_feature under these problems
WideNodes == {<<1, 0>>, <<2, 0>>, <<2, 1>>, <<3, 1>>}

\* the planner re-bound among problems with different grids and patch sizes
NextWide ==
  \/ \E p \in ProblemsWide : Initialize(p)
  \/ \E p \in ProblemsWide : ResetProblem(p)
  \/ \E n \in WideNodes : GetSuccessors(n)
  \/ \E n \in WideNodes : GetPredecessors(n)
  \/ \E n \in WideNodes : GetImagePatchAsFeature(n)

SpecWide == Init /\ [][NextWide]_vars

\* problems and reconstruct_path arguments of the life-cycle runs
LifeProblems ==
  { MkProblem(TRUE,  "E2", "LAp", "HPatch1", TRUE,  <<1, 0>>, <<2, 1>>, 2),
    MkProblem(TRUE,  "E1", "LA",  "HPlain",  FALSE, <<2, 0>>, <<1, 1>>, 3),
    MkProblem(FALSE, "E1", "LA",  "HPatch3", FALSE, <<2, 0>>, <<1, 1>>, 1) }

LifeNodes == {<<1, 0>>, <<3, 0>>}

LifeCameFroms ==
  {f \in CameFroms : DOMAIN f = RNodes /\ f[<<1, 0>>][1] = None}

InitLife ==
  /\ initialized = FALSE
  /\ curr_problem = Unset /\ env = Unset /\ lattice = Unset /\ cost = Unset
  /\ heuristic = Unset /\ visualize = Unset /\ start_node = Unset
  /\ goal_node = Unset /\ heuristic_weight = Unset
  /\ use_image_patch = Unset /\ patch_size = Unset
  /\ x_start = Unset /\ y_start = Unset /\ explore_history = Unset
  /\ ret = [op |-> "__init__", arg |-> None, err |-> "", val |-> None]
  /\ plot_log = <<>>
  /\ \E cf \in LifeCameFroms, g \in {<<2, 0>>, <<2, 1>>}, cs \in CostSoFars :
       rp = [IdleFrame EXCEPT !.came_from = cf, !.start_node = <<1, 0>>,
                              !.goal_node = g, !.cost_so_far = cs]

\* every operation of the planner
NextLife ==
  \/ \E p \in LifeProblems : Initialize(p)
  \/ \E p \in LifeProblems : ResetProblem(p)
  \/ \E n \in LifeNodes : GetSuccessors(n)
  \/ \E n \in LifeNodes : GetPredecessors(n)
  \/ \E n \in LifeNodes : GetImagePatchAsFeature(n)
  \/ \E q \in HeurPairs : GetHeuristic(q[1], q[2])
  \/ Plan
  \/ ClearPlanner
  \/ ReconstructPath
  \/ ReconStep

SpecLife == InitLife /\ [][NextLife]_vars

----------------------------------------------------------------------------
(* Properties of expansion, checked under Spec *)

IsSucc(r) == r.op = "get_successors"

\* the last call was an expansion and it returned its four-tuple
ExpReturned == ret.op \in {"get_successors", "get_predecessors"} /\ ret.err = ""

SuccReturned == IsSucc(ret) /\ ret.err = ""

\* the raw transition list of the expansion r, and the oracle's answer for
\* its k-th candidate
CandsOf(r) ==
  IF IsSucc(r) THEN RawSuccs(Val(lattice), r.arg) ELSE RawPreds(Val(lattice), r.arg)

ChkOf(r, k) == IsEdgeValid(Val(env), CandsOf(r)[k][2])

ValidIdx(r) == {k \in DOMAIN CandsOf(r) : ChkOf(r, k)[1]}

InvalidIdx(r) == {k \in DOMAIN CandsOf(r) : ~ChkOf(r, k)[1]}

\* invalid candidates for which the oracle reports a colliding state
CollidingIdx(r) == {k \in InvalidIdx(r) : ChkOf(r, k)[2] # None}

\* invalid candidates for which it reports none (the edge left the workspace)
LeavingIdx(r) == {k \in InvalidIdx(r) : ChkOf(r, k)[2] = None}

\* the j-th smallest element of a set of positions
Nth(S, j) == CHOOSE k \in S : Cardinality({m \in S : m < k}) = j - 1

CostTableOf(r) ==
  IF IsSucc(r) THEN SuccCosts(Val(lattice), r.arg) ELSE PredCosts(Val(lattice), r.arg)

\* C1: the four-tuple returned by get_successors and by get_predecessors has
\* len(neighbors) = len(costs) = len(valid_edges), and no edge of an
\* invalid_edges entry is also in valid_edges.
C1_Shape ==
  ExpReturned =>
    /\ Len(ret.val.neighbors) = Len(ret.val.costs)
    /\ Len(ret.val.costs) = Len(ret.val.valid_edges)
    /\ \A i \in DOMAIN ret.val.invalid_edges, j \in DOMAIN ret.val.valid_edges :
         ret.val.invalid_edges[i][1] # ret.val.valid_edges[j]

\* C1 witness: a successor expansion returned several valid edges and at
\* least one invalid edge
C1_Witness ==
  /\ SuccReturned
  /\ Len(ret.val.valid_edges) >= 2
  /\ Len(ret.val.invalid_edges) >= 1

\* C2: neighbors, costs and valid_edges are the raw transition list with the
\* invalid candidates removed and the order kept; the k-th cost is the
\* cost-table entry at the k-th kept candidate's position in the raw list when
\* costs are precomputed, and the cost model's value for its edge otherwise.
C2_FilteredInOrder ==
  ExpReturned =>
    /\ Len(ret.val.neighbors) = Cardinality(ValidIdx(ret))
    /\ Len(ret.val.valid_edges) = Cardinality(ValidIdx(ret))
    /\ Len(ret.val.costs) = Cardinality(ValidIdx(ret))
    /\ \A j \in 1..Cardinality(ValidIdx(ret)) :
         LET k == Nth(ValidIdx(ret), j)
         IN  /\ ret.val.neighbors[j] = CandsOf(ret)[k][1]
             /\ ret.val.valid_edges[j] = CandsOf(ret)[k][2]
             /\ ret.val.costs[j] =
                  IF CostsPrecalcDone(Val(lattice)) THEN CostTableOf(ret)[k]
                  ELSE GetCost(Val(cost), CandsOf(ret)[k][2])

\* C2 witness: with precomputed costs, a valid candidate was returned that
\* comes after an invalid one in the raw list
C2_Witness ==
  /\ ExpReturned
  /\ CostsPrecalcDone(Val(lattice))
  /\ \E k \in InvalidIdx(ret), m \in ValidIdx(ret) : k < m

\* C3 (as stated): invalid_edges has one (edge, first_colliding_state) entry
\* per invalid candidate, in order, the ones that left the workspace included
\* with an empty colliding state.
C3_Original ==
  ExpReturned =>
    /\ Len(ret.val.invalid_edges) = Cardinality(InvalidIdx(ret))
    /\ \A j \in 1..Cardinality(InvalidIdx(ret)) :
         LET k == Nth(InvalidIdx(ret), j)
         IN  ret.val.invalid_edges[j] = <<CandsOf(ret)[k][2], ChkOf(ret, k)[2]>>

\* C3 (amended): in get_successors and get_predecessors, every candidate edge
\* the environment reports invalid together with a colliding state is
\* recorded in invalid_edges as (edge, first_colliding_state), in order; an
\* edge that is invalid with no colliding state reported (it left the
\* workspace) is dropped: it is in neither invalid_edges nor valid_edges, so
\* invalid_edges has one entry per invalid candidate with a colliding state.
C3_CollidingRecorded ==
  ExpReturned =>
    /\ Len(ret.val.invalid_edges) = Cardinality(CollidingIdx(ret))
    /\ \A j \in 1..Cardinality(CollidingIdx(ret)) :
         LET k == Nth(CollidingIdx(ret), j)
         IN  ret.val.invalid_edges[j] = <<CandsOf(ret)[k][2], ChkOf(ret, k)[2]>>
    /\ \A k \in LeavingIdx(ret) :
         /\ \A j \in DOMAIN ret.val.invalid_edges :
              ret.val.invalid_edges[j][1] # CandsOf(ret)[k][2]
         /\ \A j \in DOMAIN ret.val.valid_edges :
              ret.val.valid_edges[j] # CandsOf(ret)[k][2]

\* C3 witness: an expansion returned whose candidates include one that
\* collided and one that left the workspace
C3_Witness ==
  /\ ExpReturned
  /\ CollidingIdx(ret) # {}
  /\ LeavingIdx(ret) # {}
  /\ Len(ret.val.invalid_edges) < Cardinality(InvalidIdx(ret))

----------------------------------------------------------------------------
(* Properties of the explored-history grid *)

PatchEnabled == use_image_patch = Attr(TRUE)

Shape == Val(explore_history).shape

\* the grid cell the write for candidate k of expansion r addresses
DestIndex(r, k) == CellIndex(Val(x_start), Val(y_start), CandsOf(r)[k][1])

Addressable(r, k) ==
  IndexOk(DestIndex(r, k)[1], Shape[1]) /\ IndexOk(DestIndex(r, k)[2], Shape[2])

DestCell(r, k) ==
  <<NormIndex(DestIndex(r, k)[1], Shape[1]), NormIndex(DestIndex(r, k)[2], Shape[2])>>

\* the destination's own cell exists: its offset coordinates are in [0, size)
InGrid(r, k) ==
  /\ 0 <= DestIndex(r, k)[1] /\ DestIndex(r, k)[1] < Shape[1]
  /\ 0 <= DestIndex(r, k)[2] /\ DestIndex(r, k)[2] < Shape[2]

\* candidates whose destination get_successors marks, and the tile written
Writers(r) == ValidIdx(r) \cup CollidingIdx(r)

TileOf(r, k) == IF ChkOf(r, k)[1] THEN EXPLORED_TILE ELSE OBSTACLE_TILE

\* C7 (as stated): with patch features enabled, after get_successors returns
\* the cell of every destination holds obstacle if its candidate edge was
\* invalid and explored if it was valid, the last candidate of a destination
\* deciding.
C7_Original ==
  (SuccReturned /\ PatchEnabled) =>
    \A k \in DOMAIN CandsOf(ret) :
      (/\ InGrid(ret, k)
       /\ \A m \in DOMAIN CandsOf(ret) : m > k => CandsOf(ret)[m][1] # CandsOf(ret)[k][1])
        => Val(explore_history).cells[DestIndex(ret, k)] = TileOf(ret, k)

\* C7 (amended): with patch features enabled, after get_successors(node)
\* returns, the cell addressed for every destination whose candidate edge was
\* invalid with a reported colliding state holds obstacle (2) and the cell
\* addressed for every destination whose candidate edge was valid holds
\* explored (1), the last such candidate addressing a cell deciding; a
\* candidate that is invalid with no colliding state reported marks nothing:
\* the cell of its destination keeps its value unless one of the other
\* candidates addresses it.
C7_Marks ==
  [][(IsSucc(ret') /\ ret'.err = "" /\ PatchEnabled) =>
       /\ \A k \in Writers(ret') :
            (\A m \in Writers(ret') : m > k => DestCell(ret', m) # DestCell(ret', k))
              => Val(explore_history').cells[DestCell(ret', k)] = TileOf(ret', k)
       /\ \A k \in LeavingIdx(ret') :
            (/\ Addressable(ret', k)
             /\ \A m \in Writers(ret') : DestCell(ret', m) # DestCell(ret', k))
              => Val(explore_history').cells[DestCell(ret', k)]
                   = Val(explore_history).cells[DestCell(ret', k)]]_vars

\* C7 witness: a successor expansion returned that marked a destination
\* obstacle, marked another explored, and had a candidate leaving the
\* workspace whose destination lies in the grid and is not obstacle
C7_Witness ==
  /\ SuccReturned /\ PatchEnabled
  /\ \E k \in CollidingIdx(ret) :
       Val(explore_history).cells[DestCell(ret, k)] = OBSTACLE_TILE
  /\ \E k \in ValidIdx(ret) :
       Val(explore_history).cells[DestCell(ret, k)] = EXPLORED_TILE
  /\ \E k \in LeavingIdx(ret) :
       InGrid(ret, k) /\ Val(explore_history).cells[DestIndex(ret, k)] # OBSTACLE_TILE

\* C9: reset_problem leaves the explored-history grid as it is: dimensions,
\* coordinate offsets and every cell are the same after the call as before.
C9_ResetKeepsGrid ==
  [][ret'.op = "reset_problem" =>
       /\ explore_history' = explore_history
       /\ x_start' = x_start
       /\ y_start' = y_start]_vars

\* C9 witness: reset_problem succeeded on a planner whose grid holds
\* explored and obstacle cells
C9_Witness ==
  /\ ret.op = "reset_problem" /\ ret.err = ""
  /\ IsSet(explore_history)
  /\ \E c \in DOMAIN Val(explore_history).cells :
       Val(explore_history).cells[c] = OBSTACLE_TILE
  /\ \E c \in DOMAIN Val(explore_history).cells :
       Val(explore_history).cells[c] = EXPLORED_TILE

----------------------------------------------------------------------------
(* Properties checked under SpecFixed: one environment, one lattice *)

\* C8 (as stated): over get_successors calls against a fixed environment and
\* lattice, a cell that holds obstacle never afterwards holds explored.
C8_Original ==
  [][(IsSet(explore_history) /\ IsSucc(ret')) =>
       \A c \in DOMAIN Val(explore_history).cells :
         Val(explore_history).cells[c] = OBSTACLE_TILE
           => Val(explore_history').cells[c] # EXPLORED_TILE]_vars

\* C8 (amended): over get_successors calls against a fixed environment and
\* lattice, a cell that holds obstacle still holds obstacle after a later
\* call unless one of that call's valid candidate edges addresses the cell,
\* in which case it may hold explored (the last write wins); it never
\* returns to unexplored.
C8_DemotedOnlyByValidEdge ==
  [][(IsSet(explore_history) /\ IsSucc(ret')) =>
       \A c \in DOMAIN Val(explore_history).cells :
         Val(explore_history).cells[c] = OBSTACLE_TILE
           => \/ Val(explore_history').cells[c] = OBSTACLE_TILE
              \/ /\ Val(explore_history').cells[c] = EXPLORED_TILE
                 /\ \E k \in ValidIdx(ret') :
                      Addressable(ret', k) /\ DestCell(ret', k) = c]_vars

\* C8 witness: in environment E1 node (3, 1) is explored, which only the
\* expansion of (3, 0) does, and that expansion marks (2, 0) obstacle; (2, 0)
\* is explored after the expansion of (1, 0) that has just returned
C8_Witness ==
  /\ SuccReturned /\ PatchEnabled
  /\ env = Attr("E1") /\ ret.arg = <<1, 0>>
  /\ Val(explore_history).cells[CellIndex(Val(x_start), Val(y_start), <<3, 1>>)] = EXPLORED_TILE
  /\ Val(explore_history).cells[CellIndex(Val(x_start), Val(y_start), <<2, 0>>)] = EXPLORED_TILE

----------------------------------------------------------------------------
(* Properties of path reconstruction, checked under SpecRecon *)

ReconReturned == ret.op = "reconstruct_path"

\* node sequences a predecessor chain can consist of
ChainSeqs == UNION { [1..m -> RNodes] : m \in 1..(Cardinality(RNodes) + 1) }

\* ns is the predecessor chain of goal in cf, listed from the node without
\* predecessor to goal
IsChain(cf, ns, goal) ==
  /\ ns[Len(ns)] = goal
  /\ \A i \in 1..Len(ns) : ns[i] \in DOMAIN cf
  /\ cf[ns[1]][1] = None
  /\ \A i \in 2..Len(ns) : cf[ns[i]][1] = ns[i - 1]

\* the edges stored along a chain, one per hop, in start-to-goal order
ChainEdges(cf, ns) == [i \in 1..(Len(ns) - 1) |-> cf[ns[i + 1]][2]]

\* following predecessor entries from goal revisits a node
HasCycle(cf, goal) ==
  \E ns \in ChainSeqs :
    /\ Len(ns) >= 2
    /\ ns[1] = goal
    /\ \A i \in 1..(Len(ns) - 1) : ns[i] \in DOMAIN cf /\ cf[ns[i]][1] = ns[i + 1]
    /\ \E i \in 1..(Len(ns) - 1) : ns[i] = ns[Len(ns)]

\* C4: reconstruct_path called with a goal_node that is not a key of the
\* predecessor map fails (KeyError, the lookup error that plays the role of
\* ReconstructionError) and returns nothing, whatever cost_so_far contains:
\* the walk, if it starts at all, fails in its first iteration with nothing
\* collected.
C4_AbsentGoalFails ==
  /\ (ReconReturned /\ ret.arg.goal_node \notin DOMAIN ret.arg.came_from)
       => (ret.err = "KeyError" /\ ret.val = None)
  /\ (rp.pc = "walk" /\ rp.goal_node \notin DOMAIN rp.came_from)
       => (rp.curr = rp.goal_node /\ rp.path = <<>>)

\* C4 witness: a call whose goal has an accumulated cost but no predecessor
\* entry, in a non-empty map, has ended in the error
C4_Witness ==
  /\ ReconReturned
  /\ ret.arg.goal_node \notin DOMAIN ret.arg.came_from
  /\ ret.arg.goal_node \in DOMAIN ret.arg.cost_so_far
  /\ DOMAIN ret.arg.came_from # {}
  /\ ret.err = "KeyError"

\* C5 (as stated): every call that returns a path returns the edges of the
\* chain in start-to-goal order, the chain's first node being the start_node
\* argument, and the cost recorded for goal_node.
C5_Original ==
  (ReconReturned /\ ret.err = "")
    => \E ns \in ChainSeqs :
         /\ IsChain(ret.arg.came_from, ns, ret.arg.goal_node)
         /\ ns[1] = ret.arg.start_node
         /\ ret.val = <<ChainEdges(ret.arg.came_from, ns),
                        ret.arg.cost_so_far[ret.arg.goal_node]>>

\* C5 (amended): on a planner with a bound problem, for every predecessor map
\* whose chain from goal_node reaches a node with no predecessor and every
\* cost_so_far that has goal_node as a key, reconstruct_path returns the
\* edges of that chain in start-to-goal order (one per hop, the last being the
\* one stored for goal_node) and cost_so_far[goal_node]; the walk stops at the
\* chain's node without predecessor whatever the start_node argument is.
C5_ChainReturned ==
  (/\ ReconReturned
   /\ IsSet(visualize)
   /\ ret.arg.goal_node \in DOMAIN ret.arg.cost_so_far
   /\ \E ns \in ChainSeqs : IsChain(ret.arg.came_from, ns, ret.arg.goal_node))
    => /\ ret.err = ""
       /\ \E ns \in ChainSeqs :
            /\ IsChain(ret.arg.came_from, ns, ret.arg.goal_node)
            /\ ret.val = <<ChainEdges(ret.arg.came_from, ns),
                           ret.arg.cost_so_far[ret.arg.goal_node]>>

\* C5 witness: a two-hop path was returned whose chain does not start at the
\* start_node argument
C5_Witness ==
  /\ ReconReturned /\ ret.err = ""
  /\ Len(ret.val[1]) = 2
  /\ \E ns \in ChainSeqs :
       /\ IsChain(ret.arg.came_from, ns, ret.arg.goal_node)
       /\ ns[1] # ret.arg.start_node

\* C6 (as stated): every started backward walk eventually stops. Each
\* iteration that appends an edge reads one entry of the predecessor map, and
\* the walk goes the same way from a node every time it is there: a walk that
\* stops has read no entry twice, so a walk that always stops never holds
\* more edges than the predecessor map has entries.
C6_Original ==
  rp.pc = "walk" => Len(rp.path) <= Cardinality(DOMAIN rp.came_from)

\* C6 (amended): the backward walk eventually stops (returns or fails) for
\* every predecessor map in which following the entries from goal_node never
\* revisits a node.
C6_AcyclicTerminates ==
  (rp.pc = "walk" /\ ~HasCycle(rp.came_from, rp.goal_node)) ~> (rp.pc = "idle")

\* C6 witness: a walk over two hops has stopped and returned
C6_Witness ==
  /\ rp.pc = "idle" /\ ReconReturned /\ ret.err = ""
  /\ Len(ret.val[1]) = 2
  /\ ~HasCycle(ret.arg.came_from, ret.arg.goal_node)

----------------------------------------------------------------------------
(* Properties of the image patch *)

PatchReturned == ret.op = "get_image_patch_as_feature"

\* the grid index a window cell i of a patch of the given size centered on
\* offset coordinate xdx stands for
WindowIndex(xdx, size, i) == xdx - ((size - 1) \div 2) + i

\* the tile a window cell shows according to the out-of-bounds-as-unexplored
\* rule: the grid value where the cell lies inside the grid, 0 elsewhere
WindowTile(hist, xdx, ydx, size, i, j) ==
  LET gx == WindowIndex(xdx, size, i)
      gy == WindowIndex(ydx, size, j)
  IN  IF 0 <= gx /\ gx < hist.shape[1] /\ 0 <= gy /\ gy < hist.shape[2]
      THEN hist.cells[<<gx, gy>>]
      ELSE 0

\* C10 (as stated): for every node, grid content and odd patch_size,
\* get_image_patch_as_feature(node) returns a 3 x patch_size x patch_size
\* array in which every cell has exactly one channel set: the grid value at
\* the matching coordinate for a window cell inside the grid, channel 0 for a
\* window cell outside the grid.
C10_Original ==
  (/\ PatchReturned
   /\ IsSet(patch_size) /\ IsSet(explore_history) /\ IsSet(x_start) /\ IsSet(y_start)
   /\ Val(patch_size) % 2 = 1)
    => /\ ret.err = ""
       /\ ret.val.shape = <<3, Val(patch_size), Val(patch_size)>>
       /\ \A i, j \in 0..(Val(patch_size) - 1) :
            \A ch \in 0..2 :
              ret.val.cells[<<ch, i, j>>] =
                IF ch = WindowTile(Val(explore_history),
                                   ret.arg[1] - Val(x_start), ret.arg[2] - Val(y_start),
                                   Val(patch_size), i, j)
                THEN 1 ELSE 0

\* C11 (as stated): for every even patch_size and every node, the call
\* completes and the window is patch_size cells wide in each axis, covering
\* (patch_size - 1) // 2 cells on the low side of the node and one more on
\* the high side: every window cell shows the grid value at that coordinate
\* (channel 0 outside the grid).
C11_Original ==
  (/\ PatchReturned
   /\ IsSet(patch_size) /\ IsSet(explore_history) /\ IsSet(x_start) /\ IsSet(y_start)
   /\ Val(patch_size) % 2 = 0)
    => /\ ret.err = ""
       /\ ret.val.shape = <<3, Val(patch_size), Val(patch_size)>>
       /\ \A i, j \in 0..(Val(patch_size) - 1) :
            \A ch \in 0..2 :
              ret.val.cells[<<ch, i, j>>] =
                IF ch = WindowTile(Val(explore_history),
                                   ret.arg[1] - Val(x_start), ret.arg[2] - Val(y_start),
                                   Val(patch_size), i, j)
                THEN 1 ELSE 0

----------------------------------------------------------------------------
(* Properties of the planner's life cycle *)

\* C12: initialize(problem) with a problem that is not marked initialized
\* fails with AssertionError (the precondition error), binds none of the
\* problem's components and leaves the planner's initialized flag, patch
\* attributes and grid as they were.
C12_UninitializedRejected ==
  [][(ret'.op = "initialize" /\ ~ret'.arg.initialized) =>
       /\ ret'.err = "AssertionError"
       /\ UNCHANGED <<initialized, bindingVars, patchVars>>]_vars

\* C12 witness: an initialize call with an unmarked problem has failed on a
\* planner bound to a problem with another environment, and the binding is
\* still that problem
C12_Witness ==
  /\ ret.op = "initialize" /\ ~ret.arg.initialized
  /\ ret.err = "AssertionError"
  /\ IsSet(curr_problem) /\ Val(curr_problem) # ret.arg
  /\ Val(curr_problem).env # ret.arg.env

\* C13: the planner starts uninitialized; the initialized flag becomes true
\* exactly when an initialize or reset_problem call succeeds, and no later
\* operation (failed initialize / reset_problem, expansions, patch
\* extraction, get_heuristic, reconstruct_path, plan, clear_planner) takes
\* it back to false.
C13_FlagMonotone ==
  /\ ~initialized
  /\ [][/\ initialized => initialized'
        /\ (~initialized /\ initialized')
             => (ret'.op \in {"initialize", "reset_problem"} /\ ret'.err = "")
        /\ (ret'.op \in {"initialize", "reset_problem"} /\ ret'.err = "")
             => initialized']_vars

\* C13 witness: the flag is true after clear_planner failed on a planner on
\* which a reconstruct_path call can still be made
C13_Witness ==
  /\ initialized
  /\ ret.op = "clear_planner" /\ ret.err = "NotImplementedError"
  /\ rp.pc = "idle"

----------------------------------------------------------------------------
(* Properties of the grid's size, checked under SpecWide *)

\* the grid dimensions a lattice's declared bounds give
BoundsShape(lat) == <<XLims(lat)[2] - XLims(lat)[1], YLims(lat)[2] - YLims(lat)[1]>>

\* C14 (as stated): once the grid has been sized its dimensions never change
\* under any later operation, a second initialize with a lattice of other
\* bounds included.
C14_Original ==
  [][IsSet(explore_history) =>
       /\ IsSet(explore_history')
       /\ Val(explore_history').shape = Val(explore_history).shape]_vars

\* C14 (amended): once the grid has been sized, its dimensions never change
\* under expansions, patch extraction or reset_problem (also a reset_problem
\* with a problem whose lattice declares different bounds); every initialize
\* call that enables patch features allocates a new grid with the dimensions
\* of the new problem's lattice bounds, and an initialize call that does not
\* enable them leaves the grid and its dimensions as they were.
C14_ResizedOnlyByInitialize ==
  [][IsSet(explore_history) =>
       /\ IsSet(explore_history')
       /\ Val(explore_history').shape # Val(explore_history).shape
            => (ret'.op = "initialize" /\ use_image_patch' = Attr(TRUE))
       /\ (ret'.op = "initialize" /\ ret'.err # "AssertionError")
            => IF use_image_patch' = Attr(TRUE)
               THEN Val(explore_history').shape = BoundsShape(ret'.arg.lattice)
               ELSE explore_history' = explore_history]_vars

\* C14 witness: reset_problem succeeded with a problem whose lattice bounds
\* give other dimensions than the grid has
C14_Witness ==
  /\ ret.op = "reset_problem" /\ ret.err = ""
  /\ IsSet(explore_history)
  /\ Val(explore_history).shape # BoundsShape(ret.arg.lattice)

----------------------------------------------------------------------------
(* Further properties of expansion *)

\* C15: get_predecessors(node) leaves the Explored-History Grid unchanged
\* for every node, whether its candidate edges are valid or invalid.
C15_PredecessorsKeepGrid ==
  [][ret'.op = "get_predecessors" => explore_history' = explore_history]_vars

\* C15 witness: with patch features enabled a predecessor expansion returned
\* valid and colliding candidates, and the cell of a valid candidate's node
\* and the cell of a colliding candidate's node are still unexplored
C15_Witness ==
  /\ ret.op = "get_predecessors" /\ ret.err = ""
  /\ PatchEnabled
  /\ \E k \in ValidIdx(ret) :
       InGrid(ret, k) /\ Val(explore_history).cells[DestIndex(ret, k)] = 0
  /\ \E k \in CollidingIdx(ret) :
       InGrid(ret, k) /\ Val(explore_history).cells[DestIndex(ret, k)] = 0

\* what the expansion r returns on a planner bound to the same lattice,
\* environment and cost model whose patch features are off and that holds no
\* grid
GridFreeExpansion(r) ==
  LET c == [node |-> r.arg, succs |-> CandsOf(r),
            env |-> Val(env), lat |-> Val(lattice), cost |-> Val(cost),
            uip |-> Attr(FALSE), xs |-> Unset, ys |-> Unset,
            acc |-> EmptyExpansion(Unset)]
  IN  IF IsSucc(r) THEN SuccLoop(c, 1) ELSE PredLoop(c, 1)

\* C16: the (neighbors, costs) a call of get_successors(node) or
\* get_predecessors(node) returns are determined by the node, the lattice and
\* the environment (with its cost model): they are the ones a planner without
\* any grid returns, whatever expansions happened before and whatever the
\* Explored-History Grid holds, so two calls for the same node against the
\* same lattice and environment return identical pairs.
C16_Deterministic ==
  ExpReturned =>
    /\ ret.val.neighbors = GridFreeExpansion(ret).neighbors
    /\ ret.val.costs = GridFreeExpansion(ret).costs

\* C16 witness: with patch features enabled the successor expansion of
\* (1, 1) returned (2, 1) as a neighbor while the grid holds an obstacle cell
C16_Witness ==
  /\ SuccReturned /\ PatchEnabled
  /\ env = Attr("E1") /\ ret.arg = <<1, 1>>
  /\ <<2, 1>> \in {ret.val.neighbors[j] : j \in DOMAIN ret.val.neighbors}
  /\ \E c \in DOMAIN Val(explore_history).cells :
       Val(explore_history).cells[c] = OBSTACLE_TILE

----------------------------------------------------------------------------
(* Properties of get_heuristic *)

\* C17: get_heuristic(node_a, node_b) returns 0 when no heuristic is
\* configured; otherwise it returns the heuristic's distance between the two
\* nodes' lattice states, the configured heuristic weight not applied.
C17_HeuristicUnweighted ==
  (ret.op = "get_heuristic" /\ IsSet(heuristic)) =>
    /\ ret.err = ""
    /\ ret.val = IF Val(heuristic) = "None" THEN 0
                 ELSE HeurDistance(Val(heuristic), NodeToState(ret.arg[1]),
                                   NodeToState(ret.arg[2]))

\* C17 witness: a non-zero heuristic value was returned under a heuristic
\* weight of 3
C17_Witness ==
  /\ ret.op = "get_heuristic" /\ ret.err = ""
  /\ ret.val > 0
  /\ heuristic_weight = Attr(3)

----------------------------------------------------------------------------
(* Properties of reset_problem and of the planner it leaves behind *)

\* C18 (as stated): after reset_problem(problem) the patch feature is
\* enabled exactly if the new problem's heuristic declares it, with the
\* patch size the heuristic declares, as initialize(problem) would set it.
C18_Original ==
  (ret.op = "reset_problem" /\ ret.err = "") =>
    LET h == ret.arg.heuristic
        declared == HeurHasFlag(h) /\ HeurFlag(h) /\ HeurHasSize(h)
    IN  /\ use_image_patch = Attr(declared)
        /\ declared => patch_size = Attr(HeurSize(h))

\* every candidate destination of the expansion r lies within the bounds the
\* bound lattice declares
DestsInBounds(r) ==
  \A k \in DOMAIN CandsOf(r) :
    LET n == CandsOf(r)[k][1]
    IN  /\ XLims(Val(lattice))[1] <= n[1] /\ n[1] < XLims(Val(lattice))[2]
        /\ YLims(Val(lattice))[1] <= n[2] /\ n[2] < YLims(Val(lattice))[2]

\* C19 (as stated): in every state in which the initialized flag is true,
\* whether reached through initialize or through reset_problem alone,
\* get_successors(node) runs to completion and returns its four-tuple for a
\* node with at least one candidate transition (here: a node all of whose
\* candidate destinations lie within the lattice's bounds); it does not fail
\* because planner state that only initialize sets up is missing.
C19_Original ==
  (/\ IsSucc(ret) /\ initialized /\ IsSet(lattice)
   /\ Len(CandsOf(ret)) >= 1
   /\ DestsInBounds(ret))
    => (ret.err = "" /\ ret.val # None)

\* C20 (as stated): with patch features enabled, get_successors(node)
\* changes only grid cells whose coordinates are those of destination nodes
\* among the node's candidate transitions; a destination whose offset
\* coordinates fall outside the grid causes no write to another node's cell.
C20_Original ==
  [][(IsSucc(ret') /\ PatchEnabled /\ IsSet(explore_history)) =>
       \A c \in DOMAIN Val(explore_history).cells :
         Val(explore_history').cells[c] # Val(explore_history).cells[c]
           => \E k \in DOMAIN CandsOf(ret') : DestIndex(ret', k) = c]_vars

=============================================================================
